---- MODULE Spec2Model ----
(***************************************************************************)
(* Watermark media server: the job executors (the two processJob revisions *)
(* and the synchronous /new-item handler) and the three video pipelines    *)
(* they call:                                                              *)
(*   watermarkVideoStreamToAzure   lib/processor.ts, checkCompletion join  *)
(*   watermarkVideoToAzure         lib/processor.ts, checkCompletion join  *)
(*   watermarkVideoStream          MediaService, Promise.all join          *)
(* A worker takes jobs one after the other; each job runs from "start" to  *)
(* "done" / "failed" / "crashed".  The node event loop is modelled one     *)
(* callback per action; the probe, the transcoder, the upload, the file    *)
(* system and the callback endpoint are the environment.                   *)
(* The overlay renderer is a pure function of its arguments and of the     *)
(* random draws; RenderSpec runs it alone, statement by statement.         *)
(* RetrySpec follows the reconnect delays of the Redis connection, and     *)
(* LiveSpec is Spec with every step that can be taken eventually taken.    *)
(***************************************************************************)
EXTENDS Integers, Sequences, FiniteSets, TLC

VARIABLES
    impl,           \* which pipeline (and so which caller) runs the jobs
    jobType,        \* job.data.type
    invocation,     \* jobs taken so far by this process
    running,        \* executor calls that have not settled
    pc,             \* position of the executor / pipeline async function
    imageUploaded,  \* uploadData of the watermarked image has resolved
    callbackSent,   \* number of POSTs issued to responseUrl
    callbackReply,  \* what the callback endpoint answered
    jobResult,      \* "pending" | "completed" | "failed"
    stepError,      \* rejection of a step before the callback
    jobError,       \* rejection the executor call settled with
    response,       \* what the /new-item handler returned to the framework
    probeRun,       \* what the ffprobe child did
    probeResult,    \* settlement of the promise around ffprobe
    dims,           \* { width, height } the probe resolved with
    imageDims,      \* image.width, image.height of the decoded image
    overlay,        \* the overlay buffer rendered last
    tempDir,        \* the mkdtemp directory exists
    tempDirName,    \* path returned by mkdtemp
    leakedDirs,     \* directories earlier invocations left behind
    overlayFile,    \* overlay.png exists
    inputFile,      \* input.mp4 exists (watermarkVideoToAzure only)
    proc,           \* ffmpeg: "none" | "running" | "failed" (spawn) | "exited"
    exitStatus,     \* code handed to 'close': "0", "1", "null" (signal), "-2"
    killSent,       \* ffmpeg.kill() was called
    errorPending,   \* an 'error' event is queued for the child
    closeEmitted,   \* the 'close' listener has run
    listeners,      \* what is attached to the ffmpeg child and its streams
    upload,         \* uploadStream: "none" | "inflight" | "resolved" | "rejected"
    ffmpegExitCode, \* checkCompletion join: let ffmpegExitCode
    ffmpegDone,     \* checkCompletion join: let ffmpegDone
    uploadDone,     \* checkCompletion join: let uploadDone
    uploadError,    \* checkCompletion join: uploadError !== null
    closePromise,   \* Promise.all join: the promise around 'close' / 'error'
    promise,        \* the awaited promise (new Promise / Promise.all)
    settleCalls,    \* resolve / reject calls made on the awaited promise
    tryOutcome,     \* completion of the try block
    ret,            \* settlement of the pipeline call (after finally)
    cleanupPending, \* cleanup operations of the finally block not yet run
    cleanupFailed,  \* cleanup operations that rejected
    attemptsMade,   \* job.attemptsMade: attempts of the current job so far
    layers,         \* watermarks burnt into the stored blob `jobId`
    progress,       \* values passed to job.updateProgress, in order
    spawns,         \* spawn("ffmpeg", ...) calls of this execution
    writes,         \* destination writes started by this execution
    rPc,            \* renderer: "off" | "tile" | "select" | "rings" | "done"
    rWidth,         \* renderer argument width (px)
    rHeight,        \* renderer argument height (px)
    rTextWidth,     \* widest ctx.measureText(line).width (px)
    rLines,         \* watermark.split("\n").length
    tileX,          \* inner tiling loop: iterations of x done in this row
    tileY,          \* outer tiling loop: iterations of y done
    tiles,          \* tile positions drawn
    patternIndex,   \* Math.floor(Math.random() * patterns.length)
    selectedPattern,\* const selectedPattern
    rings,          \* ring emblems drawn, in order
    times,          \* retryStrategy argument: reconnect attempts so far
    delay           \* value retryStrategy returned last (ms)

jobId     == <<impl, jobType, invocation>>
jobIO     == <<imageUploaded, callbackSent, callbackReply>>
jobEnd    == <<jobResult, running, stepError, jobError, response>>
jobVars   == <<jobId, pc, jobIO, jobEnd>>
mediaVars == <<probeRun, probeResult, dims, imageDims, overlay>>
fsVars    == <<tempDir, tempDirName, leakedDirs, overlayFile, inputFile>>
procVars  == <<proc, exitStatus, killSent, errorPending, closeEmitted,
               listeners, upload>>
joinVars  == <<ffmpegExitCode, ffmpegDone, uploadDone, uploadError,
               closePromise, promise, settleCalls>>
retVars   == <<tryOutcome, ret, cleanupPending, cleanupFailed>>
traceVars == <<progress, spawns, writes>>
storeVars == <<attemptsMade, layers>>
mainVars  == <<jobVars, mediaVars, fsVars, procVars, joinVars, retVars,
               traceVars, storeVars>>
renderIn  == <<rWidth, rHeight, rTextWidth, rLines>>
renderVars == <<rPc, renderIn, tileX, tileY, tiles, patternIndex,
                selectedPattern, rings>>
redisVars == <<times, delay>>
auxVars   == <<renderVars, redisVars>>
restVars  == <<storeVars, auxVars>>
vars      == <<mainVars, auxVars>>

----------------------------------------------------------------------------
(* Pipelines and their callers *)

StreamToAzure == "watermarkVideoStreamToAzure"
ToAzure       == "watermarkVideoToAzure"
VideoStream   == "watermarkVideoStream"

Impls == {StreamToAzure, ToAzure, VideoStream}

\* the two pipelines that join with the ffmpegDone / uploadDone flags
CheckCompletionImpls == {StreamToAzure, ToAzure}

\* the pipelines called from a queue worker's processJob
WorkerImpls == {StreamToAzure, VideoStream}

\* job types each caller can see: zValidator admits image | video at the
\* handler; a queued job's data is read back untyped
JobTypes(i) == IF i = ToAzure THEN {"image", "video"}
               ELSE {"image", "video", "audio"}

\* variant: the worker is created with two slots
concurrencyDoubled == 1 + 1

\* new Worker(..., { concurrency: 1, ... })
concurrency == 1

\* jobs one process is followed through
MaxJobs == 2

\* random draws are the multiples of 1 / RandDen in [0, 1)
RandDen == 10

----------------------------------------------------------------------------
(* Settlements: a promise state, or the argument of a resolve / reject call *)

Outcome(kind, detail) == [kind |-> kind, detail |-> detail]

Pending  == Outcome("pending", "")
Resolved == Outcome("resolved", "")
NoCall   == Outcome("none", "")

IsSettled(p) == p.kind \notin {"pending", "none"}
IsFailure(p) == IsSettled(p) /\ p.kind # "resolved"

----------------------------------------------------------------------------
(* Promise semantics and the two joins *)

\* variant: a later resolve / reject call replaces the settlement
SettleLastWins(p, call) == IF call.kind # "none" THEN call ELSE p

\* resolve / reject on a promise: only the first call settles it
Settle(p, call) == IF p.kind = "pending" /\ call.kind # "none" THEN call ELSE p

\* variant: the exit code is not looked at
CheckCompletionIgnoresCode(done, upDone, code, upErr) ==
    IF done /\ upDone
    THEN IF upErr THEN Outcome("sink", "") ELSE Resolved
    ELSE NoCall

\* variant: the upload error is looked at before the exit code
CheckCompletionSinkFirst(done, upDone, code, upErr) ==
    IF done /\ upDone
    THEN IF upErr THEN Outcome("sink", "")
         ELSE IF code # "0" THEN Outcome("transcode", code)
         ELSE Resolved
    ELSE NoCall

\* variant: the verdict is evaluated as soon as one leg is done
CheckCompletionEitherLeg(done, upDone, code, upErr) ==
    IF done \/ upDone
    THEN IF done /\ code # "0" THEN Outcome("transcode", code)
         ELSE IF upErr THEN Outcome("sink", "")
         ELSE Resolved
    ELSE NoCall

\* const checkCompletion = () => { ... }: the resolve / reject call it makes
CheckCompletion(done, upDone, code, upErr) ==
    IF done /\ upDone
    THEN IF code # "0" THEN Outcome("transcode", code)
         ELSE IF upErr THEN Outcome("sink", "")
         ELSE Resolved
    ELSE NoCall

\* ffmpeg.on("close", (code) => code === 0 ? resolve() : reject(...))
CloseVerdict(code) == IF code = "0" THEN Resolved ELSE Outcome("transcode", code)

\* the promise returned by uploadStreamFn(ffmpeg.stdout)
UploadOutcome(u) == CASE u = "resolved" -> Resolved
                      [] u = "rejected" -> Outcome("sink", "")
                      [] OTHER -> Pending

\* Promise.all([upload, close]) when one leg has just settled as `changed`
\* and the other leg stands at `other`: the settle call it makes
PromiseAll(changed, other) ==
    IF IsFailure(changed) THEN changed
    ELSE IF changed.kind = "resolved" /\ other.kind = "resolved" THEN Resolved
    ELSE NoCall

\* .catch((err) => { ...; ffmpeg.kill(); ... }) exists only in the
\* checkCompletion pipelines
KillsOnUploadFailure(i) == i \in CheckCompletionImpls

\* variant: a rejected cleanup operation is awaited without a catch and
\* replaces the completion of the try block
FinallyOutcomeRethrows(tried, failedOps) ==
    IF failedOps # {} THEN Outcome("fs", "cleanup") ELSE tried

\* the finally block: Promise.allSettled([...]) / .catch(() => {}) swallow
\* every cleanup rejection, the try block's completion stands
FinallyOutcome(tried, failedOps) == tried

\* cleanup operations started by the finally block
CleanupOps(i) == CASE i = StreamToAzure -> {"unlinkOverlay", "rmdir"}
                   [] i = ToAzure -> {"unlinkInput", "unlinkOverlay", "rmdir"}
                   [] i = VideoStream -> {"unlinkOverlay", "rmdir"}

AllCleanupOps == {"unlinkInput", "unlinkOverlay", "rmdir"}

\* may `op` run now?  Promise.allSettled starts all operations together;
\* MediaService awaits unlink before it calls rmdir
CleanupReady(i, op, pending) ==
    i = VideoStream /\ op = "rmdir" => "unlinkOverlay" \notin pending

\* a macrotask callback cannot run while the await continuation is queued
MicrotaskPending == pc = "await" /\ IsSettled(promise)


----------------------------------------------------------------------------
(* Asset dimensions, the overlay, scratch directories *)

Dimensions(w, h, present) == [width |-> w, height |-> h, defined |-> present]

\* no dimensions: nothing probed or decoded yet, or a stream entry that
\* carries neither width nor height
NoDims == Dimensions(0, 0, FALSE)

\* dimensions of real assets
AssetDims == {Dimensions(1920, 1080, TRUE), Dimensions(640, 480, TRUE)}

\* what a stream entry of the ffprobe report can carry
ProbeDims == AssetDims \cup
             {Dimensions(0, 1080, TRUE), Dimensions(1920, -1, TRUE), NoDims}

Positive(d) == d.defined /\ d.width > 0 /\ d.height > 0

NoOverlay == [dims |-> NoDims, job |-> 0]

\* variant: an overlay rendered earlier is used again
OverlayCached(prev, d, n) == IF prev.job > 0 THEN prev ELSE [dims |-> d, job |-> n]

\* createWatermarkBuffer(width, height, watermark) /
\* watermarkGenerator.generate(width, height, text): a new canvas of the
\* given size on every call, rendered in invocation n
OverlayFor(prev, d, n) == [dims |-> d, job |-> n]

\* names mkdtemp can append to the watermark- prefix
DirNames == {"watermark-a", "watermark-b", "watermark-c"}

\* variant: the directory name is fixed
MkdtempFixedName(existing) == {"watermark-a"}

\* mkdtemp(join(tmpdir(), "watermark-")): a name no existing entry has
MkdtempNames(existing) == DirNames \ existing

----------------------------------------------------------------------------
(* The overlay renderer: createWatermarkBuffer of lib/processor.ts and     *)
(* WatermarkGenerator.generate.  The tiling loops count in whole pixels;   *)
(* the ring placement is computed in units of 1 / Unit pixel, so that the  *)
(* divisions and the products with a random draw are exact up to one unit. *)

Max(a, b) == IF a > b THEN a ELSE b
Min(a, b) == IF a < b THEN a ELSE b

\* which renderer a pipeline calls
CanvasRenderer    == "createWatermarkBuffer"
GeneratorRenderer == "WatermarkGenerator.generate"
RendererOf(i) == IF i = VideoStream THEN GeneratorRenderer ELSE CanvasRenderer

\* pipelines whose renderer RenderSpec runs
RenderImpls == {StreamToAzure, VideoStream}

\* does the renderer draw the ring emblems after the tiled pass?  In
\* WatermarkGenerator.generate the ring / zone logic is a comment
DrawsRings(renderer) == renderer = CanvasRenderer

\* arguments the renderer is run with: width and height, the widest
\* measured line, the number of lines
RenderSizes == {[w |-> 120, h |-> 120], [w |-> 300, h |-> 300],
                [w |-> 1680, h |-> 1050]}
TextWidths == {60, 240}
LineCounts == {1, 2}

\* variant: the smaller of the two
StepXMin(w) == Min(200, w \div 4)

\* const stepX = Math.max(200, width / 4)
StepX(w) == Max(200, w \div 4)

\* variant: the smaller of the two
StepYMin(h) == Min(100, h \div 6)

\* const stepY = Math.max(100, height / 6)
StepY(h) == Max(100, h \div 6)

\* the loop condition x < diagonal for x = -diagonal + n, n >= 0, with
\* diagonal = Math.sqrt(width * width + height * height): n < 2 * diagonal
BelowDiagonal(n, w, h) == n * n < 4 * (w * w + h * h)

\* units per pixel
Unit == 100 * RandDen
Px(n) == n * Unit

\* const baseFontSize = Math.max(16, Math.min(width, height) / 35)
BaseFontSize(w, h) == Max(Px(16), Px(Min(w, h)) \div 35)

\* prominentFontSize = baseFontSize * 1.2; prominentLineHeight = that * 1.2
ProminentLineHeight(w, h) == (((BaseFontSize(w, h) * 12) \div 10) * 12) \div 10

\* const textHeight = lines.length * prominentLineHeight
TextHeight(w, h, n) == n * ProminentLineHeight(w, h)

\* const padding = 30
padding == 30

\* const zoneWidth = (width - textWidth - 2 * padding) / 3
ZoneWidth(w, tw) == (Px(w) - Px(tw) - 2 * Px(padding)) \div 3

\* const zoneHeight = (height - textHeight - 2 * padding) / 3
ZoneHeight(w, h, n) == (Px(h) - TextHeight(w, h, n) - 2 * Px(padding)) \div 3

\* const zoneConfigs = [...]: cell index 0..8 (row-major) -> column, row
zoneConfigs ==
    << [zoneX |-> 0, zoneY |-> 0], [zoneX |-> 1, zoneY |-> 0], [zoneX |-> 2, zoneY |-> 0],
       [zoneX |-> 0, zoneY |-> 1], [zoneX |-> 1, zoneY |-> 1], [zoneX |-> 2, zoneY |-> 1],
       [zoneX |-> 0, zoneY |-> 2], [zoneX |-> 1, zoneY |-> 2], [zoneX |-> 2, zoneY |-> 2] >>

Zone(cell) == zoneConfigs[cell + 1]

\* variant: the third pattern has two cells side by side
adjacentZonePatterns ==
    << <<0, 4, 8>>, <<2, 4, 6>>, <<0, 1, 8>>, <<1, 3, 8>>, <<2, 3, 7>> >>

\* variant: the second pattern has two cells in one column
sharedColumnZonePatterns ==
    << <<0, 4, 8>>, <<0, 4, 6>>, <<0, 5, 7>>, <<1, 3, 8>>, <<2, 3, 7>> >>

\* const separatedZonePatterns = [...]
separatedZonePatterns ==
    << <<0, 4, 8>>, <<2, 4, 6>>, <<0, 5, 7>>, <<1, 3, 8>>, <<2, 3, 7>> >>

\* the draws Math.random() can return, as numerators over RandDen
PatternDraws == 0 .. (RandDen - 1)

\* the draws followed for the ring offsets: the two ends of [0, 1)
OffsetDraws == {0, RandDen - 1}

\* variant: the product is rounded to the nearest integer
PatternIndexRounded(k) ==
    (2 * k * Len(separatedZonePatterns) + RandDen) \div (2 * RandDen)

\* Math.floor(Math.random() * separatedZonePatterns.length)
PatternIndex(k) == (k * Len(separatedZonePatterns)) \div RandDen

\* separatedZonePatterns[index]: undefined outside the table
PatternAt(index) ==
    IF index \in 0 .. (Len(separatedZonePatterns) - 1)
    THEN separatedZonePatterns[index + 1]
    ELSE << >>

\* const ringRadius = Math.max(40, Math.min(width, height) / 12)
RingRadius(w, h) == Max(Px(40), Px(Min(w, h)) \div 12)

\* Math.random() * Math.max(zoneSize - ringRadius * 2, 10)
RandomOffset(k, zoneSize, radius) ==
    (k * Max(zoneSize - 2 * radius, Px(10))) \div RandDen

\* padding + ringRadius + zone.zoneX * zoneWidth + <random offset>
Center(zoneCoord, zoneSize, radius, offset) ==
    Px(padding) + radius + zoneCoord * zoneSize + offset

----------------------------------------------------------------------------
\* a process that has taken no job yet
Idle ==
    /\ jobType = "none"
    /\ invocation = 0 /\ running = 0
    /\ pc = "idle"
    /\ imageUploaded = FALSE
    /\ callbackSent = 0 /\ callbackReply = "none"
    /\ jobResult = "pending"
    /\ stepError = Pending /\ jobError = Pending /\ response = "none"
    /\ probeRun = "none" /\ probeResult = Pending
    /\ dims = NoDims /\ imageDims = NoDims /\ overlay = NoOverlay
    /\ tempDir = FALSE /\ tempDirName = "none" /\ leakedDirs = {}
    /\ overlayFile = FALSE /\ inputFile = FALSE
    /\ proc = "none" /\ exitStatus = "" /\ killSent = FALSE
    /\ errorPending = FALSE /\ closeEmitted = FALSE /\ upload = "none"
    /\ listeners = {}
    /\ ffmpegExitCode = "null" /\ ffmpegDone = FALSE
    /\ uploadDone = FALSE /\ uploadError = FALSE
    /\ closePromise = Pending /\ promise = Pending /\ settleCalls = 0
    /\ tryOutcome = Pending /\ ret = Pending
    /\ cleanupPending = {} /\ cleanupFailed = {}
    /\ progress = << >> /\ spawns = 0 /\ writes = 0
    /\ attemptsMade = 0 /\ layers = 0

\* the renderer's locals before anything is drawn
RenderStart ==
    /\ tileX = 0 /\ tileY = 0 /\ tiles = 0
    /\ patternIndex = 0 /\ selectedPattern = << >> /\ rings = << >>

\* the renderer is not followed statement by statement
RenderOff ==
    /\ rPc = "off"
    /\ rWidth = 0 /\ rHeight = 0 /\ rTextWidth = 0 /\ rLines = 0
    /\ RenderStart

\* no reconnect is followed
RedisOff == times = 0 /\ delay = 0

Init ==
    /\ impl \in Impls
    /\ Idle
    /\ RenderOff
    /\ RedisOff

\* the executor is called with a job of type t: every local of the call is
\* new; a scratch directory the previous call left on disk stays there
StartInvocation(t) ==
    /\ invocation' = invocation + 1
    /\ running' = running + 1
    /\ jobType' = t
    /\ pc' = "start"
    /\ imageUploaded' = FALSE
    /\ callbackSent' = 0 /\ callbackReply' = "none"
    /\ jobResult' = "pending"
    /\ stepError' = Pending /\ jobError' = Pending /\ response' = "none"
    /\ probeRun' = "none" /\ probeResult' = Pending
    /\ dims' = NoDims /\ imageDims' = NoDims
    /\ leakedDirs' = IF tempDir THEN leakedDirs \cup {tempDirName} ELSE leakedDirs
    /\ tempDir' = FALSE /\ tempDirName' = "none"
    /\ overlayFile' = FALSE /\ inputFile' = FALSE
    /\ proc' = "none" /\ exitStatus' = "" /\ killSent' = FALSE
    /\ errorPending' = FALSE /\ closeEmitted' = FALSE /\ upload' = "none"
    /\ listeners' = {}
    /\ ffmpegExitCode' = "null" /\ ffmpegDone' = FALSE
    /\ uploadDone' = FALSE /\ uploadError' = FALSE
    /\ closePromise' = Pending /\ promise' = Pending /\ settleCalls' = 0
    /\ tryOutcome' = Pending /\ ret' = Pending
    /\ cleanupPending' = {} /\ cleanupFailed' = {}
    /\ progress' = << >> /\ spawns' = 0 /\ writes' = 0
    /\ UNCHANGED <<impl, overlay, auxVars>>

\* defaultJobOptions: { attempts: 3, ... }
attempts == 3

\* new Worker(QUEUE_NAME, processJob, { concurrency, ... }): the worker
\* takes the next job while fewer than `concurrency` calls are unsettled
FetchJob(t) ==
    /\ impl \in WorkerImpls
    /\ pc # "crashed"
    /\ invocation < MaxJobs
    /\ running < concurrency
    /\ t \in JobTypes(impl)
    /\ StartInvocation(t)
    /\ attemptsMade' = 1 /\ layers' = 0

\* the queue hands out a job again whose last attempt failed, while it has
\* attempts left; the blob `jobId` is as the earlier attempts left it
RetryJob ==
    /\ impl \in WorkerImpls
    /\ pc = "failed"
    /\ attemptsMade < attempts
    /\ invocation < MaxJobs
    /\ running < concurrency
    /\ StartInvocation(jobType)
    /\ attemptsMade' = attemptsMade + 1
    /\ layers' = layers

\* app.post("/new-item", ...): a request arrives; requests are followed
\* one at a time
ReceiveRequest(t) ==
    /\ impl = ToAzure
    /\ pc \in {"idle", "done", "failed"}
    /\ invocation < MaxJobs
    /\ t \in JobTypes(impl)
    /\ StartInvocation(t)
    /\ attemptsMade' = 1 /\ layers' = 0

\* variant: the checkpoint after generateSasUrl reports 80
ProgressAtLate(i, step) ==
    CASE i = StreamToAzure ->
           (CASE step = "start" -> 10
              [] step = "download" -> 25
              [] step = "watermarkImage" -> 50
              [] step = "uploadData" -> 75
              [] step = "generateSasUrl" -> 80
              [] step = "pipeline" -> 75
              [] step = "callback" -> 100)
      [] i = VideoStream ->
           (CASE step = "start" -> 10
              [] step = "download" -> 30
              [] step = "watermarkImage" -> 60
              [] step = "uploadData" -> 90
              [] step = "pipeline" -> 90
              [] OTHER -> 0)
      [] OTHER -> 0

\* await job.updateProgress(n) after each step of processJob; 0: the
\* revision has no checkpoint there (the handler has none at all)
ProgressAt(i, step) ==
    CASE i = StreamToAzure ->
           (CASE step = "start" -> 10
              [] step = "download" -> 25
              [] step = "watermarkImage" -> 50
              [] step = "uploadData" -> 75
              [] step = "generateSasUrl" -> 20
              [] step = "pipeline" -> 75
              [] step = "callback" -> 100)
      [] i = VideoStream ->
           (CASE step = "start" -> 10
              [] step = "download" -> 30
              [] step = "watermarkImage" -> 60
              [] step = "uploadData" -> 90
              [] step = "pipeline" -> 90
              [] OTHER -> 0)
      [] OTHER -> 0

\* the progress values after the checkpoint that follows `step`
Reported(step) ==
    IF ProgressAt(impl, step) > 0
    THEN Append(progress, ProgressAt(impl, step))
    ELSE progress

\* the executor moves on to its next statement
JobGoes(next) ==
    /\ pc' = next
    /\ UNCHANGED jobEnd

\* the executor call rejects with err
JobThrows(err) ==
    /\ pc' = "failed"
    /\ jobResult' = "failed"
    /\ running' = running - 1
    /\ jobError' = err
    /\ response' = IF impl = ToAzure THEN "threw" ELSE response

\* an await before the callback rejected: nothing catches, the error
\* leaves processJob / the handler
StepFails(err) ==
    /\ JobThrows(err)
    /\ stepError' = err

\* an exception outside every promise: the process dies
Crashes(err) ==
    /\ pc' = "crashed"
    /\ stepError' = err
    /\ UNCHANGED <<jobResult, running, jobError, response>>

----------------------------------------------------------------------------
(* Executors: dispatch and the image path *)

\* processJob of lib/processor.ts (flag join revision)
ProcessJobStart ==
    /\ pc = "start" /\ impl = StreamToAzure
    /\ IF jobType = "image" THEN JobGoes("download")
       ELSE IF jobType = "video" THEN JobGoes("generateSasUrl")
       ELSE StepFails(Outcome("type", "Unknown job type"))
    /\ UNCHANGED <<jobId, jobIO>>
    /\ UNCHANGED <<mediaVars, fsVars, procVars, joinVars, retVars>>
    /\ progress' = Reported("start")
    /\ UNCHANGED <<spawns, writes, restVars>>

\* processJob of the service revision: no else branch, an unknown type
\* falls through to the callback
ServiceProcessJobStart ==
    /\ pc = "start" /\ impl = VideoStream
    /\ JobGoes(IF jobType = "image" THEN "download"
               ELSE IF jobType = "video" THEN "generateSasUrl"
               ELSE "callback")
    /\ UNCHANGED <<jobId, jobIO>>
    /\ UNCHANGED <<mediaVars, fsVars, procVars, joinVars, retVars>>
    /\ progress' = Reported("start")
    /\ UNCHANGED <<spawns, writes, restVars>>

\* POST /new-item, synchronous revision: the blob is downloaded before the
\* type is looked at
HandlerStart ==
    /\ pc = "start" /\ impl = ToAzure
    /\ JobGoes("download")
    /\ UNCHANGED <<jobId, jobIO>>
    /\ UNCHANGED <<mediaVars, fsVars, procVars, joinVars, retVars>>
    /\ UNCHANGED traceVars
    /\ UNCHANGED restVars

\* downloadBlobToBuffer / storageService.downloadBuffer
Download(ok) ==
    /\ pc = "download"
    /\ IF ok
       THEN JobGoes(IF jobType = "video" THEN "mkdtemp" ELSE "watermarkImage")
       ELSE StepFails(Outcome("download", ""))
    /\ UNCHANGED <<jobId, jobIO>>
    /\ UNCHANGED <<mediaVars, fsVars, procVars, joinVars, retVars>>
    /\ progress' = IF ok THEN Reported("download") ELSE progress
    /\ UNCHANGED <<spawns, writes, restVars>>

\* watermarkImage: loadImage rejects on undecodable bytes; the overlay is
\* rendered with image.width, image.height
WatermarkImage(ok, d) ==
    /\ pc = "watermarkImage"
    /\ IF ok
       THEN /\ d \in AssetDims
            /\ imageDims' = d
            /\ overlay' = OverlayFor(overlay, d, invocation)
            /\ JobGoes("uploadData")
       ELSE /\ d = NoDims
            /\ StepFails(Outcome("decode", ""))
            /\ UNCHANGED <<imageDims, overlay>>
    /\ UNCHANGED <<jobId, jobIO>>
    /\ UNCHANGED <<probeRun, probeResult, dims>>
    /\ UNCHANGED <<fsVars, procVars, joinVars, retVars>>
    /\ progress' = IF ok THEN Reported("watermarkImage") ELSE progress
    /\ UNCHANGED <<spawns, writes, restVars>>

\* await outBlob.uploadData(processedBuffer) / storageService.uploadBuffer
UploadData(ok) ==
    /\ pc = "uploadData"
    /\ IF ok
       THEN JobGoes("callback") /\ imageUploaded' = TRUE
       ELSE StepFails(Outcome("upload", "")) /\ imageUploaded' = imageUploaded
    /\ UNCHANGED <<jobId, callbackSent, callbackReply>>
    /\ UNCHANGED <<mediaVars, fsVars, procVars, joinVars, retVars>>
    /\ writes' = writes + 1
    /\ layers' = IF ok THEN layers + 1 ELSE layers
    /\ progress' = IF ok THEN Reported("uploadData") ELSE progress
    /\ UNCHANGED <<spawns, attemptsMade, auxVars>>

\* inBlob.generateSasUrl / storageService.generateSasUrl
GenerateSasUrl(ok) ==
    /\ pc = "generateSasUrl"
    /\ IF ok THEN JobGoes("mkdtemp") ELSE StepFails(Outcome("sas", ""))
    /\ UNCHANGED <<jobId, jobIO>>
    /\ UNCHANGED <<mediaVars, fsVars, procVars, joinVars, retVars>>
    /\ progress' = IF ok THEN Reported("generateSasUrl") ELSE progress
    /\ UNCHANGED <<spawns, writes, restVars>>

----------------------------------------------------------------------------
(* The video pipeline up to the spawn *)

\* the try block completed (threw) before the join: run the finally block
EnterFinally(outcome) ==
    /\ tryOutcome' = outcome
    /\ cleanupPending' = CleanupOps(impl)
    /\ pc' = "cleanup"
    /\ UNCHANGED <<ret, cleanupFailed>>

\* const tempDir = await mkdtemp(...): before the try block, a rejection
\* leaves the call at once
Mkdtemp(ok, name) ==
    /\ pc = "mkdtemp"
    /\ IF ok
       THEN /\ name \in MkdtempNames(leakedDirs)
            /\ tempDir' = TRUE
            /\ tempDirName' = name
            /\ JobGoes(IF impl = ToAzure THEN "writeInput" ELSE "probe")
            /\ ret' = ret
       ELSE /\ name = "none"
            /\ ret' = Outcome("fs", "mkdtemp")
            /\ StepFails(ret')
            /\ UNCHANGED <<tempDir, tempDirName>>
    /\ UNCHANGED <<jobId, jobIO>>
    /\ UNCHANGED <<leakedDirs, overlayFile, inputFile>>
    /\ UNCHANGED <<tryOutcome, cleanupPending, cleanupFailed>>
    /\ UNCHANGED <<mediaVars, procVars, joinVars>>
    /\ UNCHANGED traceVars
    /\ UNCHANGED restVars

\* await writeFile(inputPath, inputBuffer)   (watermarkVideoToAzure)
WriteInput(ok) ==
    /\ pc = "writeInput"
    /\ IF ok
       THEN /\ inputFile' = TRUE
            /\ pc' = "probe"
            /\ UNCHANGED retVars
       ELSE /\ EnterFinally(Outcome("fs", "writeFile"))
            /\ inputFile' = inputFile
    /\ UNCHANGED <<jobId, jobIO, jobEnd>>
    /\ UNCHANGED <<tempDir, tempDirName, leakedDirs, overlayFile>>
    /\ UNCHANGED <<mediaVars, procVars, joinVars>>
    /\ UNCHANGED traceVars
    /\ UNCHANGED restVars

\* what the ffprobe child does: it cannot be spawned, exits non-zero,
\* exits 0 with text that is not JSON, exits 0 with a report that has no
\* streams entry, or exits 0 with a report
ProbeRuns == {"spawnError", "exitNonZero", "invalidJson", "noStreams", "ok"}

\* variant: the 'close' listener does not look at the exit code
ProbeVerdictIgnoresExitCode(run) ==
    CASE run = "spawnError"  -> Outcome("uncaught", "error event")
      [] run = "exitNonZero" -> Resolved
      [] run = "invalidJson" -> Outcome("probe", "Failed to parse FFprobe output")
      [] run = "noStreams"   -> Outcome("probe", "Failed to parse FFprobe output")
      [] run = "ok"          -> Resolved

\* getVideoDimensions / getVideoDimensionsFromUrl of lib/processor.ts:
\* no 'error' listener (an 'error' event with no listener is thrown by the
\* emitter), JSON.parse and result.streams[0] inside try / catch
ProbeVerdict(run) ==
    CASE run = "spawnError"  -> Outcome("uncaught", "error event")
      [] run = "exitNonZero" -> Outcome("probe", "FFprobe failed")
      [] run = "invalidJson" -> Outcome("probe", "Failed to parse FFprobe output")
      [] run = "noStreams"   -> Outcome("probe", "Failed to parse FFprobe output")
      [] run = "ok"          -> Resolved

\* MediaService.getVideoDimensions: no 'error' listener, JSON.parse and
\* result.streams[0] outside any try, inside the 'close' listener
ServiceProbeVerdict(run) ==
    CASE run = "spawnError"  -> Outcome("uncaught", "error event")
      [] run = "exitNonZero" -> Outcome("probe", "FFprobe failed")
      [] run = "invalidJson" -> Outcome("uncaught", "close listener threw")
      [] run = "noStreams"   -> Outcome("uncaught", "close listener threw")
      [] run = "ok"          -> Resolved

\* const { width, height } = await getVideoDimensions...(...): the report's
\* width and height are handed on as they are
Probe(run, d) ==
    /\ pc = "probe"
    /\ d \in IF run = "ok" THEN ProbeDims ELSE {NoDims}
    /\ probeRun' = run
    /\ LET v == IF impl = VideoStream THEN ServiceProbeVerdict(run)
                ELSE ProbeVerdict(run)
       IN  CASE v.kind = "resolved" ->
                  /\ probeResult' = v /\ dims' = d
                  /\ pc' = "render"
                  /\ UNCHANGED <<retVars, jobEnd>>
             [] v.kind = "uncaught" ->
                  /\ Crashes(v)
                  /\ UNCHANGED <<probeResult, dims, retVars>>
             [] OTHER ->
                  /\ probeResult' = v
                  /\ EnterFinally(v)
                  /\ UNCHANGED <<dims, jobEnd>>
    /\ UNCHANGED <<jobId, jobIO>>
    /\ UNCHANGED <<imageDims, overlay>>
    /\ UNCHANGED <<fsVars, procVars, joinVars>>
    /\ UNCHANGED traceVars
    /\ UNCHANGED restVars

\* createWatermarkBuffer / watermarkGenerator.generate with the probed
\* width and height, then await writeFile(overlayPath, overlayBuffer)
Render(ok) ==
    /\ pc = "render"
    /\ IF ok
       THEN /\ overlay' = OverlayFor(overlay, dims, invocation)
            /\ overlayFile' = TRUE
            /\ pc' = "spawn"
            /\ UNCHANGED retVars
       ELSE /\ EnterFinally(Outcome("fs", "writeFile"))
            /\ UNCHANGED <<overlay, overlayFile>>
    /\ UNCHANGED <<jobId, jobIO, jobEnd>>
    /\ UNCHANGED <<probeRun, probeResult, dims, imageDims>>
    /\ UNCHANGED <<tempDir, tempDirName, leakedDirs, inputFile>>
    /\ UNCHANGED <<procVars, joinVars>>
    /\ UNCHANGED traceVars
    /\ UNCHANGED restVars

\* the consumer of stderr, the sink reading stdout, the 'close' and the
\* 'error' listener
AllListeners == {"stderr", "stdout", "close", "error"}

\* variant: 'close' and 'error' are attached after an await
AttachedAfterAwait(i) == {"stderr", "stdout"}

\* what is attached between spawn("ffmpeg", ...) and the end of the
\* synchronous run: ffmpeg.stderr.on("data"), uploadStream(ffmpeg.stdout),
\* ffmpeg.on("close"), ffmpeg.on("error"), in all three pipelines
AttachedAtSpawn(i) == {"stderr", "stdout", "close", "error"}

\* the promise executor: spawn("ffmpeg", ...), listeners registered, the
\* child's stdout handed to uploadStream, all in one synchronous run
Spawn(ok) ==
    /\ pc = "spawn"
    /\ pc' = "await"
    /\ upload' = "inflight"
    /\ listeners' = AttachedAtSpawn(impl)
    /\ IF ok
       THEN proc' = "running" /\ UNCHANGED <<exitStatus, errorPending>>
       ELSE proc' = "failed" /\ exitStatus' = "-2" /\ errorPending' = TRUE
    /\ UNCHANGED <<killSent, closeEmitted>>
    /\ UNCHANGED <<jobId, jobIO, jobEnd>>
    /\ UNCHANGED <<mediaVars, fsVars, joinVars, retVars>>
    /\ spawns' = spawns + 1 /\ writes' = writes + 1
    /\ UNCHANGED <<progress, restVars>>

\* exit codes of a running transcoder: success, failure, killed by a signal
ExitCodes == {"0", "1", "null"}

\* the transcoder process ends (operating system)
ProcExit(code) ==
    /\ proc = "running"
    /\ proc' = "exited"
    /\ exitStatus' = code
    /\ UNCHANGED <<killSent, errorPending, closeEmitted, upload, listeners>>
    /\ UNCHANGED <<jobVars, mediaVars, fsVars, joinVars, retVars>>
    /\ UNCHANGED traceVars
    /\ UNCHANGED restVars

----------------------------------------------------------------------------
(* The join, flag revision: watermarkVideoStreamToAzure, watermarkVideoToAzure *)

\* a resolve / reject call on the awaited promise
CallOnPromise(call) ==
    /\ promise' = Settle(promise, call)
    /\ settleCalls' = IF call.kind = "none" THEN settleCalls ELSE settleCalls + 1

\* ffmpeg.on("error", (err) => reject(new Error(`FFmpeg spawn error: ...`)))
OnError ==
    /\ impl \in CheckCompletionImpls
    /\ errorPending /\ ~MicrotaskPending
    /\ errorPending' = FALSE
    /\ IF "error" \in listeners
       THEN /\ CallOnPromise(Outcome("spawn", ""))
            /\ UNCHANGED jobVars
       ELSE /\ Crashes(Outcome("uncaught", "error event"))
            /\ UNCHANGED <<jobId, jobIO, promise, settleCalls>>
    /\ UNCHANGED <<proc, exitStatus, killSent, closeEmitted, upload, listeners>>
    /\ UNCHANGED <<ffmpegExitCode, ffmpegDone, uploadDone, uploadError, closePromise>>
    /\ UNCHANGED <<mediaVars, fsVars, retVars>>
    /\ UNCHANGED traceVars
    /\ UNCHANGED restVars

\* ffmpeg.on("close", (code) => { ffmpegExitCode = code; ffmpegDone = true;
\* checkCompletion(); }); 'close' follows 'error' when the spawn failed
OnClose ==
    /\ impl \in CheckCompletionImpls
    /\ proc \in {"exited", "failed"} /\ ~errorPending /\ ~closeEmitted
    /\ ~MicrotaskPending
    /\ closeEmitted' = TRUE
    /\ IF "close" \in listeners
       THEN /\ ffmpegExitCode' = exitStatus
            /\ ffmpegDone' = TRUE
            /\ CallOnPromise(CheckCompletion(TRUE, uploadDone, exitStatus, uploadError))
       ELSE UNCHANGED <<ffmpegExitCode, ffmpegDone, promise, settleCalls>>
    /\ UNCHANGED <<proc, exitStatus, killSent, errorPending, upload, listeners>>
    /\ UNCHANGED <<uploadDone, uploadError, closePromise>>
    /\ UNCHANGED <<jobVars, mediaVars, fsVars, retVars>>
    /\ UNCHANGED traceVars
    /\ UNCHANGED restVars

\* uploadStream(...).then(() => { uploadDone = true; checkCompletion(); });
\* the upload ends with the end of the child's stdout
UploadThen ==
    /\ impl \in CheckCompletionImpls
    /\ upload = "inflight" /\ proc # "running" /\ ~MicrotaskPending
    /\ upload' = "resolved"
    /\ uploadDone' = TRUE
    /\ CallOnPromise(CheckCompletion(ffmpegDone, TRUE, ffmpegExitCode, uploadError))
    /\ UNCHANGED <<proc, exitStatus, killSent, errorPending, closeEmitted, listeners>>
    /\ UNCHANGED <<ffmpegExitCode, ffmpegDone, uploadError, closePromise>>
    /\ UNCHANGED <<jobVars, mediaVars, fsVars, retVars>>
    /\ UNCHANGED traceVars
    /\ layers' = layers + 1
    /\ UNCHANGED <<attemptsMade, auxVars>>

\* .catch((err) => { uploadError = ...; uploadDone = true; ffmpeg.kill();
\* checkCompletion(); }); kill() signals the child only while it runs
UploadCatch ==
    /\ impl \in CheckCompletionImpls
    /\ upload = "inflight" /\ ~MicrotaskPending
    /\ upload' = "rejected"
    /\ uploadError' = TRUE
    /\ uploadDone' = TRUE
    /\ killSent' = (KillsOnUploadFailure(impl) /\ proc = "running")
    /\ CallOnPromise(CheckCompletion(ffmpegDone, TRUE, ffmpegExitCode, TRUE))
    /\ UNCHANGED <<proc, exitStatus, errorPending, closeEmitted, listeners>>
    /\ UNCHANGED <<ffmpegExitCode, ffmpegDone, closePromise>>
    /\ UNCHANGED <<jobVars, mediaVars, fsVars, retVars>>
    /\ UNCHANGED traceVars
    /\ UNCHANGED restVars

----------------------------------------------------------------------------
(* The join, MediaService revision: Promise.all([upload, close promise]) *)

\* one leg of Promise.all settles: `leg` is the leg's new state, `was` its
\* old one, `other` the other leg
CallFromLeg(leg, was, other) ==
    CallOnPromise(IF was.kind = "pending" THEN PromiseAll(leg, other) ELSE NoCall)

\* ffmpeg.on("error", reject)
ServiceOnError ==
    /\ impl = VideoStream
    /\ errorPending /\ ~MicrotaskPending
    /\ errorPending' = FALSE
    /\ IF "error" \in listeners
       THEN /\ closePromise' = Settle(closePromise, Outcome("spawn", ""))
            /\ CallFromLeg(closePromise', closePromise, UploadOutcome(upload))
            /\ UNCHANGED jobVars
       ELSE /\ Crashes(Outcome("uncaught", "error event"))
            /\ UNCHANGED <<jobId, jobIO, closePromise, promise, settleCalls>>
    /\ UNCHANGED <<proc, exitStatus, killSent, closeEmitted, upload, listeners>>
    /\ UNCHANGED <<ffmpegExitCode, ffmpegDone, uploadDone, uploadError>>
    /\ UNCHANGED <<mediaVars, fsVars, retVars>>
    /\ UNCHANGED traceVars
    /\ UNCHANGED restVars

\* ffmpeg.on("close", (code) => code === 0 ? resolve() : reject(...))
ServiceOnClose ==
    /\ impl = VideoStream
    /\ proc \in {"exited", "failed"} /\ ~errorPending /\ ~closeEmitted
    /\ ~MicrotaskPending
    /\ closeEmitted' = TRUE
    /\ IF "close" \in listeners
       THEN /\ closePromise' = Settle(closePromise, CloseVerdict(exitStatus))
            /\ CallFromLeg(closePromise', closePromise, UploadOutcome(upload))
       ELSE UNCHANGED <<closePromise, promise, settleCalls>>
    /\ UNCHANGED <<proc, exitStatus, killSent, errorPending, upload, listeners>>
    /\ UNCHANGED <<ffmpegExitCode, ffmpegDone, uploadDone, uploadError>>
    /\ UNCHANGED <<jobVars, mediaVars, fsVars, retVars>>
    /\ UNCHANGED traceVars
    /\ UNCHANGED restVars

\* uploadStreamFn(ffmpeg.stdout) settles: await uploadClient.uploadStream(...)
\* resolved (at the end of stdout) or rejected (at any time)
ServiceUploadSettled(ok) ==
    /\ impl = VideoStream
    /\ upload = "inflight" /\ ~MicrotaskPending
    /\ ok => proc # "running"
    /\ upload' = IF ok THEN "resolved" ELSE "rejected"
    /\ killSent' = (KillsOnUploadFailure(impl) /\ ~ok /\ proc = "running")
    /\ CallFromLeg(UploadOutcome(upload'), Pending, closePromise)
    /\ UNCHANGED <<proc, exitStatus, errorPending, closeEmitted, listeners>>
    /\ UNCHANGED <<ffmpegExitCode, ffmpegDone, uploadDone, uploadError, closePromise>>
    /\ UNCHANGED <<jobVars, mediaVars, fsVars, retVars>>
    /\ UNCHANGED traceVars
    /\ layers' = IF ok THEN layers + 1 ELSE layers
    /\ UNCHANGED <<attemptsMade, auxVars>>

----------------------------------------------------------------------------
(* After the join: finally block and return *)

\* the await on the joined promise continues: into the finally block
AwaitSettled ==
    /\ pc = "await" /\ IsSettled(promise)
    /\ EnterFinally(promise)
    /\ UNCHANGED <<jobId, jobIO, jobEnd>>
    /\ UNCHANGED <<mediaVars, fsVars, procVars, joinVars>>
    /\ UNCHANGED traceVars
    /\ UNCHANGED restVars

\* one cleanup operation runs: unlink rejects on a missing file, rmdir on
\* a missing or non-empty directory
CleanupOp(op) ==
    /\ pc = "cleanup" /\ op \in cleanupPending
    /\ CleanupReady(impl, op, cleanupPending)
    /\ cleanupPending' = cleanupPending \ {op}
    /\ LET ok == CASE op = "unlinkOverlay" -> overlayFile
                   [] op = "unlinkInput" -> inputFile
                   [] op = "rmdir" -> tempDir /\ ~overlayFile /\ ~inputFile
       IN  /\ cleanupFailed' = IF ok THEN cleanupFailed ELSE cleanupFailed \cup {op}
           /\ overlayFile' = IF op = "unlinkOverlay" THEN FALSE ELSE overlayFile
           /\ inputFile' = IF op = "unlinkInput" THEN FALSE ELSE inputFile
           /\ tempDir' = IF op = "rmdir" /\ ok THEN FALSE ELSE tempDir
    /\ UNCHANGED <<tempDirName, leakedDirs>>
    /\ UNCHANGED <<tryOutcome, ret, jobVars, mediaVars, procVars, joinVars>>
    /\ UNCHANGED traceVars
    /\ UNCHANGED restVars

\* the finally block is through: the call settles; the caller goes on to
\* the callback or throws
Return ==
    /\ pc = "cleanup" /\ cleanupPending = {}
    /\ ret' = FinallyOutcome(tryOutcome, cleanupFailed)
    /\ IF ret'.kind = "resolved" THEN JobGoes("callback") ELSE StepFails(ret')
    /\ UNCHANGED <<jobId, jobIO>>
    /\ UNCHANGED <<tryOutcome, cleanupPending, cleanupFailed>>
    /\ UNCHANGED <<mediaVars, fsVars, procVars, joinVars>>
    /\ progress' = IF ret'.kind = "resolved" THEN Reported("pipeline") ELSE progress
    /\ UNCHANGED <<spawns, writes, restVars>>

----------------------------------------------------------------------------
(* The callback to responseUrl *)

\* what the callback endpoint does with the POST
CallbackReplies == {"2xx", "non2xx", "networkError"}

\* await fetch(responseUrl, { method: "POST", ... }): the request goes out
SendCallback ==
    /\ pc = "callback"
    /\ callbackSent' = callbackSent + 1
    /\ JobGoes("awaitCallback")
    /\ UNCHANGED <<jobId, imageUploaded, callbackReply>>
    /\ UNCHANGED <<mediaVars, fsVars, procVars, joinVars, retVars>>
    /\ UNCHANGED traceVars
    /\ UNCHANGED restVars

\* c.json({ status: "accepted" })
Accepted == "accepted"

\* c.json({ error: "Processing failed" }, 500)
ProcessingFailed == "500 Processing failed"

\* what the /new-item handler returns at its end: processedBuffer is
\* assigned on the image path only; if (!processedBuffer) return
\* c.json({ error }, 500); the last statement is a bare return
HandlerReturns(t) ==
    IF t = "image" THEN "undefined" ELSE ProcessingFailed

\* the executor returned normally
JobReturns ==
    /\ pc' = "done"
    /\ jobResult' = "completed"
    /\ running' = running - 1
    /\ response' = IF impl = ToAzure THEN HandlerReturns(jobType) ELSE response
    /\ UNCHANGED <<stepError, jobError>>

\* the callback step rejected: the error leaves the executor
CallbackFails(reply) ==
    /\ JobThrows(Outcome("callback", reply))
    /\ UNCHANGED stepError

\* variant: an executor that posts the callback again after a failure
ProcessJobCallbackRetries(reply) ==
    /\ pc = "awaitCallback" /\ impl = StreamToAzure
    /\ callbackReply' = reply
    /\ IF reply = "2xx" THEN JobReturns ELSE JobGoes("callback")
    /\ UNCHANGED <<jobId, imageUploaded, callbackSent>>
    /\ UNCHANGED <<mediaVars, fsVars, procVars, joinVars, retVars>>
    /\ progress' = IF reply = "2xx" THEN Reported("callback") ELSE progress
    /\ UNCHANGED <<spawns, writes, restVars>>

\* processJob of lib/processor.ts: if (!callbackResponse.ok) throw
ProcessJobCallback(reply) ==
    /\ pc = "awaitCallback" /\ impl = StreamToAzure
    /\ callbackReply' = reply
    /\ IF reply = "2xx" THEN JobReturns ELSE CallbackFails(reply)
    /\ UNCHANGED <<jobId, imageUploaded, callbackSent>>
    /\ UNCHANGED <<mediaVars, fsVars, procVars, joinVars, retVars>>
    /\ progress' = IF reply = "2xx" THEN Reported("callback") ELSE progress
    /\ UNCHANGED <<spawns, writes, restVars>>

\* processJob of the service revision: the status is logged, only a
\* rejected fetch is rethrown
ServiceProcessJobCallback(reply) ==
    /\ pc = "awaitCallback" /\ impl = VideoStream
    /\ callbackReply' = reply
    /\ IF reply = "networkError" THEN CallbackFails(reply) ELSE JobReturns
    /\ UNCHANGED <<jobId, imageUploaded, callbackSent>>
    /\ UNCHANGED <<mediaVars, fsVars, procVars, joinVars, retVars>>
    /\ UNCHANGED traceVars
    /\ UNCHANGED restVars

\* POST /new-item handler: the status is logged, a rejected fetch leaves
\* the handler
HandlerCallback(reply) ==
    /\ pc = "awaitCallback" /\ impl = ToAzure
    /\ callbackReply' = reply
    /\ IF reply = "networkError" THEN CallbackFails(reply) ELSE JobReturns
    /\ UNCHANGED <<jobId, imageUploaded, callbackSent>>
    /\ UNCHANGED <<mediaVars, fsVars, procVars, joinVars, retVars>>
    /\ UNCHANGED traceVars
    /\ UNCHANGED restVars

----------------------------------------------------------------------------
Next ==
    \/ \E t \in JobTypes(StreamToAzure) : FetchJob(t)
    \/ RetryJob
    \/ \E t \in JobTypes(ToAzure) : ReceiveRequest(t)
    \/ ProcessJobStart
    \/ ServiceProcessJobStart
    \/ HandlerStart
    \/ \E ok \in BOOLEAN : Download(ok)
    \/ \E ok \in BOOLEAN, d \in AssetDims \cup {NoDims} : WatermarkImage(ok, d)
    \/ \E ok \in BOOLEAN : UploadData(ok)
    \/ \E ok \in BOOLEAN : GenerateSasUrl(ok)
    \/ \E ok \in BOOLEAN, name \in DirNames \cup {"none"} : Mkdtemp(ok, name)
    \/ \E ok \in BOOLEAN : WriteInput(ok)
    \/ \E run \in ProbeRuns, d \in ProbeDims : Probe(run, d)
    \/ \E ok \in BOOLEAN : Render(ok)
    \/ \E ok \in BOOLEAN : Spawn(ok)
    \/ \E code \in ExitCodes : ProcExit(code)
    \/ OnError
    \/ OnClose
    \/ UploadThen
    \/ UploadCatch
    \/ ServiceOnError
    \/ ServiceOnClose
    \/ \E ok \in BOOLEAN : ServiceUploadSettled(ok)
    \/ AwaitSettled
    \/ \E op \in AllCleanupOps : CleanupOp(op)
    \/ Return
    \/ SendCallback
    \/ \E reply \in CallbackReplies : ProcessJobCallback(reply)
    \/ \E reply \in CallbackReplies : ServiceProcessJobCallback(reply)
    \/ \E reply \in CallbackReplies : HandlerCallback(reply)

Spec == Init /\ [][Next]_vars

\* every child process eventually exits or fails to start, every upload
\* and file operation eventually settles, the event loop runs every
\* callback that is due: no step that can be taken is put off for ever
LiveSpec == Spec /\ WF_vars(Next)

----------------------------------------------------------------------------
(* The renderer, statement by statement *)

\* the renderer is called with a size, a text of rLines lines whose widest
\* line measures rTextWidth
RenderInit ==
    /\ impl \in RenderImpls
    /\ Idle
    /\ rPc = "tile"
    /\ \E size \in RenderSizes : rWidth = size.w /\ rHeight = size.h
    /\ rTextWidth \in TextWidths
    /\ rLines \in LineCounts
    /\ RenderStart
    /\ RedisOff

\* for (let y = -diagonal; y < diagonal; y += stepY): the condition
RowInRange == BelowDiagonal(tileY * StepY(rHeight), rWidth, rHeight)

\* for (let x = -diagonal; x < diagonal; x += stepX): the condition
ColInRange == BelowDiagonal(tileX * StepX(rWidth), rWidth, rHeight)

\* the body of the inner loop: the lines are drawn at (x, y); x += stepX
DrawTile ==
    /\ rPc = "tile" /\ RowInRange /\ ColInRange
    /\ tiles' = tiles + 1
    /\ tileX' = tileX + 1
    /\ UNCHANGED <<rPc, renderIn, tileY, patternIndex, selectedPattern, rings>>
    /\ UNCHANGED <<mainVars, redisVars>>

\* the inner loop ends; y += stepY
NextTileRow ==
    /\ rPc = "tile" /\ RowInRange /\ ~ColInRange
    /\ tileY' = tileY + 1
    /\ tileX' = 0
    /\ UNCHANGED <<rPc, renderIn, tiles, patternIndex, selectedPattern, rings>>
    /\ UNCHANGED <<mainVars, redisVars>>

\* the outer loop ends; ctx.resetTransform(); generate returns the buffer
\* here, createWatermarkBuffer goes on to the rings
TilingDone ==
    /\ rPc = "tile" /\ ~RowInRange
    /\ rPc' = IF DrawsRings(RendererOf(impl)) THEN "select" ELSE "done"
    /\ UNCHANGED <<renderIn, tileX, tileY, tiles, patternIndex, selectedPattern, rings>>
    /\ UNCHANGED <<mainVars, redisVars>>

\* const selectedPattern = separatedZonePatterns[Math.floor(Math.random()
\* * separatedZonePatterns.length)], with the draw k / RandDen
SelectPattern(k) ==
    /\ rPc = "select"
    /\ patternIndex' = PatternIndex(k)
    /\ selectedPattern' = PatternAt(patternIndex')
    /\ rPc' = "rings"
    /\ UNCHANGED <<renderIn, tileX, tileY, tiles, rings>>
    /\ UNCHANGED <<mainVars, redisVars>>

\* one iteration of for (const zoneIndex of selectedPattern): the center
\* is computed with the draws kx / RandDen, ky / RandDen, the ring drawn
PlaceRing(kx, ky) ==
    /\ rPc = "rings" /\ Len(rings) < Len(selectedPattern)
    /\ LET cell   == selectedPattern[Len(rings) + 1]
           radius == RingRadius(rWidth, rHeight)
           zw     == ZoneWidth(rWidth, rTextWidth)
           zh     == ZoneHeight(rWidth, rHeight, rLines)
           ox     == RandomOffset(kx, zw, radius)
           oy     == RandomOffset(ky, zh, radius)
       IN  rings' = Append(rings,
                           [cell |-> cell, offsetX |-> ox, offsetY |-> oy,
                            x |-> Center(Zone(cell).zoneX, zw, radius, ox),
                            y |-> Center(Zone(cell).zoneY, zh, radius, oy)])
    /\ UNCHANGED <<rPc, renderIn, tileX, tileY, tiles, patternIndex, selectedPattern>>
    /\ UNCHANGED <<mainVars, redisVars>>

\* return canvas.toBuffer("image/png"); iterating an undefined pattern
\* throws instead
RenderReturn ==
    /\ rPc = "rings" /\ Len(rings) = Len(selectedPattern)
    /\ rPc' = IF selectedPattern = << >> THEN "threw" ELSE "done"
    /\ UNCHANGED <<renderIn, tileX, tileY, tiles, patternIndex, selectedPattern, rings>>
    /\ UNCHANGED <<mainVars, redisVars>>

RenderNext ==
    \/ DrawTile
    \/ NextTileRow
    \/ TilingDone
    \/ \E k \in PatternDraws : SelectPattern(k)
    \/ \E kx \in OffsetDraws, ky \in OffsetDraws : PlaceRing(kx, ky)
    \/ RenderReturn

RenderSpec == RenderInit /\ [][RenderNext]_vars

----------------------------------------------------------------------------
(* The Redis connection options: retryStrategy *)

\* the largest attempt number the client is followed to
MaxTimes == 128

\* the cap of the delay (ms)
MaxDelay == 30000

\* retryStrategy: (times) => Math.min(times * 500, 30000)
retryStrategy(t) == IF t * 500 < MaxDelay THEN t * 500 ELSE MaxDelay

\* the connection was just lost: no reconnect attempt made yet
RetryInit ==
    /\ impl \in WorkerImpls
    /\ Idle
    /\ RenderOff
    /\ RedisOff

\* the client calls retryStrategy(times) with the next attempt number and
\* waits for the delay returned
Reconnect ==
    /\ times < MaxTimes
    /\ times' = times + 1
    /\ delay' = retryStrategy(times')
    /\ UNCHANGED <<mainVars, renderVars>>

RetryNext == Reconnect

RetrySpec == RetryInit /\ [][RetryNext]_vars

----------------------------------------------------------------------------
(* Properties of the streaming pipeline *)

BothLegsOk == proc = "exited" /\ exitStatus = "0" /\ upload = "resolved"

\* C1: the pipeline call returns successfully if and only if the
\* transcoder exited with code 0 and the upload resolved; a non-zero or
\* absent exit code, or a rejected upload, never yields a successful return
C1_SuccessIffBothLegsOk ==
    /\ ret.kind = "resolved" => BothLegsOk
    /\ (IsSettled(ret) /\ BothLegsOk) => ret.kind = "resolved"

C1_Witness == ret.kind = "resolved" /\ BothLegsOk /\ closeEmitted

\* C2: the awaited promise never settles while a leg is still open: it is
\* settled only when the transcoder is gone and the upload has settled
C2_NoSettleBeforeBothLegs ==
    IsSettled(promise) =>
        proc \in {"exited", "failed"} /\ upload \in {"resolved", "rejected"}

\* C3: a transcoder that exited with a non-zero code makes the pipeline's
\* outcome the transcode failure carrying that code, whatever the upload did
\* and whenever it did it
C3_TranscodeFailureWins ==
    (IsSettled(ret) /\ closeEmitted /\ proc = "exited" /\ exitStatus = "1")
        => ret = Outcome("transcode", "1")

\* C4: when the upload has failed and the transcoder is still running, the
\* transcoder has been signalled to terminate
C4_SinkFailureKillsTranscoder ==
    (upload = "rejected" /\ proc = "running") => killSent

\* C5: when only the upload failed, and the transcoder ended by the
\* pipeline's own kill signal, the pipeline reports the sink failure
C5_SinkFailureReported ==
    (IsSettled(ret) /\ upload = "rejected" /\ killSent
        /\ proc = "exited" /\ exitStatus = "null")
        => ret.kind = "sink"

\* exit statuses that name no exit code of the transcoder
NonSpecificCodes == {"null"}

C7_FirstSettlementStands ==
    [][invocation' = invocation =>
          /\ IsSettled(promise) => promise' = promise
          /\ IsSettled(ret) => ret' = ret]_vars

C7_Witness == settleCalls >= 2 /\ IsSettled(promise) /\ IsSettled(ret)

\* C8: once the pipeline call has returned, neither the overlay file nor
\* the temporary directory exists
C8_ScratchRemoved == IsSettled(ret) => ~overlayFile /\ ~tempDir

\* C9: a rejected cleanup operation never changes the outcome: the call
\* settles as the try block completed
C9_CleanupFailureSwallowed ==
    (IsSettled(ret) /\ cleanupFailed # {}) => ret = tryOutcome

C9_Witness == IsSettled(ret) /\ cleanupFailed # {} /\ ret.kind = "resolved"

\* C10: a POST to responseUrl has been issued only if the destination write
\* is complete: the image upload resolved, or the transcoder exited and the
\* streaming upload resolved
C10_CallbackAfterWrite ==
    callbackSent > 0 =>
        /\ jobType = "image" => imageUploaded
        /\ jobType = "video" => proc = "exited" /\ upload = "resolved"

C10_Witness == callbackSent > 0 /\ jobType = "video" /\ closeEmitted

----------------------------------------------------------------------------
(* Properties of the job executors and of the pipeline's phases *)

\* C11: a callback answered with a non-2xx status fails the job execution:
\* processJob rejects and the job is not completed
C11_Non2xxFailsJob ==
    (impl \in WorkerImpls /\ callbackReply = "non2xx") => jobResult = "failed"

\* C12: a job whose type is neither image nor video is rejected with the
\* unsupported-type error before any download, upload, spawn or callback,
\* and is never completed
C12_UnknownTypeRejected ==
    (jobType \notin {"none", "image", "video"} /\ pc # "start")
        => /\ jobResult = "failed"
           /\ jobError = Outcome("type", "Unknown job type")
           /\ callbackSent = 0 /\ ~imageUploaded
           /\ proc = "none" /\ upload = "none"

\* probe runs the claim names: non-zero exit, stdout that cannot be parsed
FailedProbeRuns == {"exitNonZero", "invalidJson", "noStreams"}

\* C13: when ffprobe exits non-zero, or prints what cannot be parsed, the
\* promise around it rejects with a probe error: it neither resolves nor
\* stays unsettled
C13_ProbeFailureRejects ==
    probeRun \in FailedProbeRuns => probeResult.kind = "probe"

\* C14: the phases come in order: the transcoder is spawned and the sink
\* invoked only after the probe succeeded and this invocation's overlay was
\* written, the sink not before the spawn, the join not before both were
\* started, a successful return not before the join; after a failed probe
\* nothing is spawned and the sink is not invoked
C14_PhaseOrder ==
    /\ (proc # "none" \/ upload # "none")
           => probeRun = "ok" /\ overlay.job = invocation
    /\ upload # "none" => proc # "none"
    /\ IsSettled(promise) => proc # "none" /\ upload # "none"
    /\ ret.kind = "resolved" => promise.kind = "resolved"
    /\ probeRun \notin {"none", "ok"} => proc = "none" /\ upload = "none"

C14_Witness ==
    /\ probeRun = "ok" /\ overlay.job = invocation
    /\ proc = "exited" /\ upload = "resolved" /\ ret.kind = "resolved"

C16_BadDimensionsFailFast ==
    (probeRun = "ok" /\ ~Positive(dims))
        => overlay.job # invocation /\ ~overlayFile /\ proc = "none"

\* positions at which an executor call has ended
FinalPcs == {"done", "failed", "crashed"}

\* C17: when a step before the callback failed, the processJob call ends
\* rejected with that step's error, and no callback was sent
C17_StepErrorPropagates ==
    (impl \in WorkerImpls /\ IsSettled(stepError) /\ pc \in FinalPcs)
        => /\ jobResult = "failed"
           /\ jobError = stepError
           /\ callbackSent = 0

\* C18: a worker never has two processJob calls unsettled at once
C18_OneJobAtATime == impl \in WorkerImpls => running <= 1

C18_Witness == impl \in WorkerImpls /\ invocation = 2 /\ running = 1

\* C19: the scratch directory of an invocation is never a directory that
\* another invocation created and left on disk
C19_FreshScratchDir ==
    tempDir => tempDirName \in DirNames /\ tempDirName \notin leakedDirs

C19_Witness == invocation = 2 /\ tempDir /\ leakedDirs # {}

\* C20: the overlay composited onto an asset was rendered in this
\* invocation, with the width and height of this invocation's asset: the
\* decoded image's, or the probed video's
C20_OverlayMatchesAsset ==
    /\ (jobType = "image" /\ imageDims # NoDims)
           => overlay = [dims |-> imageDims, job |-> invocation]
    /\ (jobType = "video" /\ proc # "none") => overlay.job = invocation
    /\ (jobType = "video" /\ proc # "none" /\ Positive(dims))
           => overlay.dims = dims

C20_Witness ==
    /\ invocation = 2 /\ jobType = "video" /\ proc = "exited"
    /\ Positive(dims) /\ overlay = [dims |-> dims, job |-> invocation]

----------------------------------------------------------------------------
(* Properties of the overlay renderer (RenderSpec) *)

Abs(a) == IF a < 0 THEN 0 - a ELSE a

\* two cells of the 3x3 grid that share a side
SideAdjacent(a, b) ==
    \/ Zone(a).zoneY = Zone(b).zoneY /\ Abs(Zone(a).zoneX - Zone(b).zoneX) = 1
    \/ Zone(a).zoneX = Zone(b).zoneX /\ Abs(Zone(a).zoneY - Zone(b).zoneY) = 1

RingPairs == {pair \in (1 .. Len(rings)) \X (1 .. Len(rings)) : pair[1] < pair[2]}

\* C21: every pattern of the table is three distinct cells of 0..8 no two
\* of which share a side of the grid, and so are the cells of the rings
\* drawn in one render
C21_PatternsNonAdjacent ==
    /\ \A i \in 1 .. Len(separatedZonePatterns) :
           LET p == separatedZonePatterns[i]
           IN  /\ Len(p) = 3
               /\ \A j \in 1 .. 3 : p[j] \in 0 .. 8
               /\ \A j \in 1 .. 3, k \in 1 .. 3 :
                      j < k => p[j] # p[k] /\ ~SideAdjacent(p[j], p[k])
    /\ \A pair \in RingPairs :
           /\ rings[pair[1]].cell # rings[pair[2]].cell
           /\ ~SideAdjacent(rings[pair[1]].cell, rings[pair[2]].cell)

C21_Witness == rPc = "done" /\ Len(rings) = 3 /\ selectedPattern = <<0, 5, 7>>

\* C22: the bounding box of every ring drawn (outer radius ringRadius
\* around the center) lies inside [0, width] x [0, height]
C22_RingsInsideCanvas ==
    \A i \in 1 .. Len(rings) :
        LET radius == RingRadius(rWidth, rHeight)
        IN  /\ rings[i].x - radius >= 0
            /\ rings[i].x + radius <= Px(rWidth)
            /\ rings[i].y - radius >= 0
            /\ rings[i].y + radius <= Px(rHeight)

\* C23: when zoneWidth - 2 * ringRadius (zoneHeight - 2 * ringRadius) is
\* not positive, the random offset of a ring is zero on that axis and the
\* zone size that entered the center is not negative
C23_NoSpaceClampsToZero ==
    \A i \in 1 .. Len(rings) :
        LET radius == RingRadius(rWidth, rHeight)
            zw     == ZoneWidth(rWidth, rTextWidth)
            zh     == ZoneHeight(rWidth, rHeight, rLines)
        IN  /\ zw - 2 * radius <= 0 => rings[i].offsetX = 0 /\ zw >= 0
            /\ zh - 2 * radius <= 0 => rings[i].offsetY = 0 /\ zh >= 0

\* C24: a finished render has drawn the tiled pass and exactly three
\* rings, one in each cell of the selected pattern
C24_ThreeRings ==
    rPc = "done" =>
        /\ tiles > 0
        /\ Len(rings) = 3
        /\ Len(selectedPattern) = 3
        /\ \A i \in 1 .. 3 : rings[i].cell = selectedPattern[i]

CeilPx(u)  == (u + Unit - 1) \div Unit
FloorPx(u) == u \div Unit

\* two rings whose centers are no further apart than twice the radius,
\* whatever the rounding to whole pixels hides
CertainlyOverlap(a, b, radius) ==
    LET dx    == CeilPx(Abs(a.x - b.x))
        dy    == CeilPx(Abs(a.y - b.y))
        reach == FloorPx(2 * radius)
    IN  dx * dx + dy * dy <= reach * reach

\* C25: no two rings of one render overlap: the distance between their
\* centers exceeds twice the ring radius
C25_RingsApart ==
    \A pair \in RingPairs :
        ~CertainlyOverlap(rings[pair[1]], rings[pair[2]],
                          RingRadius(rWidth, rHeight))

PatternIndices == 0 .. (Len(separatedZonePatterns) - 1)

\* C26: the table has at least 5 patterns, every draw yields an index of
\* the table, every index is yielded by some draw, and the pattern used is
\* the one at the index drawn
C26_PatternSelection ==
    /\ Len(separatedZonePatterns) >= 5
    /\ \A k \in PatternDraws : PatternIndex(k) \in PatternIndices
    /\ \A i \in PatternIndices : \E k \in PatternDraws : PatternIndex(k) = i
    /\ rPc \in {"rings", "done"} /\ DrawsRings(RendererOf(impl)) =>
           /\ patternIndex \in PatternIndices
           /\ selectedPattern = separatedZonePatterns[patternIndex + 1]
    /\ rPc # "threw"

C26_Witness ==
    /\ rPc = "done" /\ patternIndex = Len(separatedZonePatterns) - 1
    /\ selectedPattern = <<2, 3, 7>>

\* C27: every pattern of the table has one cell in each row and one in
\* each column of the grid, and no two rings of a render share a row or a
\* column
C27_PermutationPatterns ==
    /\ \A i \in 1 .. Len(separatedZonePatterns) :
           LET p == separatedZonePatterns[i]
           IN  /\ Len(p) = 3
               /\ {Zone(p[j]).zoneY : j \in 1 .. 3} = {0, 1, 2}
               /\ {Zone(p[j]).zoneX : j \in 1 .. 3} = {0, 1, 2}
    /\ \A pair \in RingPairs :
           /\ Zone(rings[pair[1]].cell).zoneX # Zone(rings[pair[2]].cell).zoneX
           /\ Zone(rings[pair[1]].cell).zoneY # Zone(rings[pair[2]].cell).zoneY

C27_Witness == rPc = "done" /\ Len(rings) = 3 /\ selectedPattern = <<2, 4, 6>>

\* the number of loop iterations that reach from -diagonal to diagonal
\* with the given step: the least n with -diagonal + n * step >= diagonal
TileCount(step, w, h) ==
    CHOOSE n \in 1 .. ((2 * (w + h)) \div step + 1) :
        /\ ~BelowDiagonal(n * step, w, h)
        /\ BelowDiagonal((n - 1) * step, w, h)

\* C28: stepX = max(200, w / 4) and stepY = max(100, h / 6) are positive,
\* the tiling loops never run past the first position at or beyond the
\* diagonal, and when they have ended one tile was drawn at every step of
\* [-diagonal, diagonal) on both axes
C28_TilingTerminates ==
    rPc # "off" =>
        LET sx == StepX(rWidth)
            sy == StepY(rHeight)
        IN  /\ sx >= 200 /\ sx * 4 >= rWidth /\ (sx = 200 \/ sx * 4 = rWidth)
            /\ sy >= 100 /\ sy * 6 >= rHeight /\ (sy = 100 \/ sy * 6 = rHeight)
            /\ tileX <= TileCount(sx, rWidth, rHeight)
            /\ tileY <= TileCount(sy, rWidth, rHeight)
            /\ rPc # "tile" =>
                   /\ tiles = TileCount(sx, rWidth, rHeight)
                                * TileCount(sy, rWidth, rHeight)
                   /\ tileY * sy >= 2 * rHeight

C28_Witness == rPc = "done" /\ rWidth = 1680 /\ tiles > 100

----------------------------------------------------------------------------
(* Properties of one execution of a job (Spec) *)

\* C29: in the worker revisions the first progress value is 10 and it is
\* there before the executor has touched storage, a subprocess or the
\* callback; the values after it rise strictly and stay at or below 100,
\* and 100 is there only when the callback answered with a success status
C29_ProgressOrder ==
    impl \in WorkerImpls =>
        /\ pc \notin {"idle", "start"} => Len(progress) >= 1
        /\ progress = << >> =>
               /\ spawns = 0 /\ writes = 0 /\ callbackSent = 0
               /\ ~imageUploaded /\ probeRun = "none" /\ proc = "none" /\ ~tempDir
        /\ progress # << >> => progress[1] = 10
        /\ \A i \in 1 .. Len(progress) :
               /\ progress[i] <= 100
               /\ i > 1 => progress[i] > progress[i - 1]
        /\ (\E i \in 1 .. Len(progress) : progress[i] = 100) =>
               callbackReply = "2xx"

C29_Witness == progress = <<10, 20, 75, 100>> /\ spawns = 1

\* C30: within one execution at most one transcoder is spawned, at most
\* one destination write is started and at most one callback POST is sent
C30_NoRetries == spawns <= 1 /\ writes <= 1 /\ callbackSent <= 1

C30_Witness ==
    /\ spawns = 1 /\ writes = 1 /\ callbackSent = 1
    /\ callbackReply = "non2xx" /\ pc = "failed"

----------------------------------------------------------------------------
(* Attempts of one job (Spec) *)

\* C34: when an image or video job completes, on whichever of its
\* attempts, the stored asset carries the watermark exactly once
C34_WatermarkedOnce ==
    (jobResult = "completed" /\ jobType \in {"image", "video"}) => layers = 1

----------------------------------------------------------------------------
(* Listeners of the transcoder (Spec) *)

\* C33: from the step that spawns the transcoder on, the stderr consumer,
\* the sink on stdout and the 'close' and 'error' listeners are attached;
\* an exit that was announced has run the 'close' listener
C33_ListenersBeforeEvents ==
    /\ proc # "none" => listeners = AllListeners
    /\ upload # "none" => "stdout" \in listeners
    /\ closeEmitted =>
           IF impl \in CheckCompletionImpls THEN ffmpegDone
           ELSE IsSettled(closePromise)
    /\ pc # "crashed" \/ probeRun # "ok"

C33_Witness ==
    /\ closeEmitted /\ proc = "exited" /\ exitStatus = "1"
    /\ listeners = AllListeners /\ impl = VideoStream

----------------------------------------------------------------------------
(* The transcoder and the scratch files (Spec) *)

\* C32: the finally block starts only when the transcoder has exited, the
\* overlay file exists as long as the transcoder runs, and the transcoder
\* does not run any more when the pipeline call has settled
C32_CleanupAfterExit ==
    proc = "running" =>
        /\ pc # "cleanup"
        /\ overlayFile
        /\ ~IsSettled(ret)

----------------------------------------------------------------------------
(* Termination of the pipelines (LiveSpec) *)

\* the pipeline function has been called and has not returned
PipelineRunning ==
    pc \in {"mkdtemp", "writeInput", "probe", "render", "spawn", "await", "cleanup"}

\* C31: every pipeline call eventually settles with an outcome
C31_PipelineReturns == PipelineRunning ~> IsSettled(ret)

----------------------------------------------------------------------------
(* Properties of the /new-item handler (Spec) *)

\* C35: a video request whose pipeline, upload and callback succeeded is
\* not answered with the 500 "Processing failed" response, and an image
\* request that succeeded is answered with the accepted response
C35_HandlerAnswers ==
    (impl = ToAzure /\ pc = "done" /\ callbackReply = "2xx") =>
        /\ jobType = "video" => response # ProcessingFailed
        /\ jobType = "image" => response = Accepted

----------------------------------------------------------------------------
(* Properties of the Redis reconnect delay (RetrySpec) *)

\* C36: the delay returned for attempt times >= 1 is at most 30000 ms, the
\* delay of the next attempt is not smaller, and below the cap the delays
\* grow by one constant factor above 1 from each attempt to the next
C36_ExponentialBackoff ==
    times >= 1 =>
        /\ delay = retryStrategy(times)
        /\ delay <= MaxDelay
        /\ retryStrategy(times + 1) >= delay
        /\ retryStrategy(times + 2) < MaxDelay =>
               /\ retryStrategy(times + 1) > delay
               /\ retryStrategy(times + 2) * delay
                      = retryStrategy(times + 1) * retryStrategy(times + 1)

====
